---- MODULE Spec2Model ----
(***************************************************************************)
(* Model of load_dbg_file (src/binaryninja/dbg_load/__init__.py): the      *)
(* plugin command that asks for a COFF .DBG file, runs the external        *)
(* dbgparse tool on it and imports each output line into the host view.    *)
(*                                                                         *)
(* Text is a sequence of one-character strings.  Python integers are       *)
(* unbounded; an integer is kept as two limbs [hi, lo] in radix 2^16 with  *)
(* hi unbounded, so that sums above 2^32 are represented exactly.          *)
(* The tool's output is kept as the list of lines that decode() and        *)
(* splitlines() produce; a line therefore never contains a line break.     *)
(* Host calls are assumed to return normally; the demangler may raise.     *)
(***************************************************************************)
EXTENDS Integers, Sequences, FiniteSets, TLC

VARIABLES pc, fault, dbg_file, toolRuns, exit_status, output, idx,
          typ, addr_str, name, addr, mangle_typ, mangle_name,
          demangleReqs, hostCalls, start

vars == <<pc, fault, dbg_file, toolRuns, exit_status, output, idx,
          typ, addr_str, name, addr, mangle_typ, mangle_name,
          demangleReqs, hostCalls, start>>

\* ---------------------------------------------------------------- bounds
MaxLines == 3

\* ------------------------------------------------------------- constants
Radix == 2^16
HexFieldLen == 8

NoneValue == "<None>"

\* ------------------------------------------------------------ text helpers
RECURSIVE Rep(_, _)
Rep(c, n) == IF n = 0 THEN <<>> ELSE <<c>> \o Rep(c, n - 1)

DecDigits == {"0","1","2","3","4","5","6","7","8","9"}
LowerHex == DecDigits \cup {"a","b","c","d","e","f"}

\* value of one digit as int(_, 16) reads it (either letter case)
HexDigitVal(c) ==
    CASE c = "0" -> 0 [] c = "1" -> 1 [] c = "2" -> 2 [] c = "3" -> 3
      [] c = "4" -> 4 [] c = "5" -> 5 [] c = "6" -> 6 [] c = "7" -> 7
      [] c = "8" -> 8 [] c = "9" -> 9
      [] c \in {"a", "A"} -> 10 [] c \in {"b", "B"} -> 11
      [] c \in {"c", "C"} -> 12 [] c \in {"d", "D"} -> 13
      [] c \in {"e", "E"} -> 14 [] c \in {"f", "F"} -> 15

\* ---------------------------------------------------------------- integers
Zero == [hi |-> 0, lo |-> 0]

Add_wrap32(a, b) ==
    LET s == a.lo + b.lo
    IN  [hi |-> (a.hi + b.hi + (s \div Radix)) % Radix, lo |-> s % Radix]

\* a + b on unbounded integers
Add(a, b) ==
    LET s == a.lo + b.lo
    IN  [hi |-> a.hi + b.hi + (s \div Radix), lo |-> s % Radix]

\* acc * 16 + d
ShiftIn(acc, d) ==
    LET l == acc.lo * 16 + d
    IN  [hi |-> acc.hi * 16 + (l \div Radix), lo |-> l % Radix]

RECURSIVE HexAcc(_, _)
HexAcc(s, acc) ==
    IF s = <<>> THEN acc
    ELSE HexAcc(Tail(s), ShiftIn(acc, HexDigitVal(Head(s))))

\* int(s, 16)
HexInt(s) == HexAcc(s, Zero)

\* ------------------------------------------------------------ line matcher
AllIn(s, set) == \A i \in 1..Len(s) : s[i] \in set

NoMatch == [ok |-> FALSE, typ |-> "", addr |-> <<>>, name |-> <<>>]

\* the pattern with (\S*) for the name group
RexMatch_noblank(line) ==
    IF /\ Len(line) >= HexFieldLen + 3
       /\ line[1] \in {"F", "G", "S"}
       /\ line[2] = " "
       /\ AllIn(SubSeq(line, 3, HexFieldLen + 2), LowerHex)
       /\ line[HexFieldLen + 3] = " "
       /\ \A i \in (HexFieldLen + 4)..Len(line) : line[i] # " "
    THEN [ok |-> TRUE, typ |-> line[1],
          addr |-> SubSeq(line, 3, HexFieldLen + 2),
          name |-> SubSeq(line, HexFieldLen + 4, Len(line))]
    ELSE NoMatch

\* re.compile("^([FGS]) ([0-9a-f]{8}) (.*)$").match(line); a line holds no
\* line break, so (.*)$ takes every remaining character
RexMatch(line) ==
    IF /\ Len(line) >= HexFieldLen + 3
       /\ line[1] \in {"F", "G", "S"}
       /\ line[2] = " "
       /\ AllIn(SubSeq(line, 3, HexFieldLen + 2), LowerHex)
       /\ line[HexFieldLen + 3] = " "
    THEN [ok |-> TRUE, typ |-> line[1],
          addr |-> SubSeq(line, 3, HexFieldLen + 2),
          name |-> SubSeq(line, HexFieldLen + 4, Len(line))]
    ELSE NoMatch

\* ------------------------------------------------------------------- join
Sep == <<":", ":">>

RECURSIVE Join_reversed(_)
Join_reversed(parts) ==
    IF parts = <<>> THEN <<>>
    ELSE IF Len(parts) = 1 THEN parts[1]
    ELSE Join_reversed(Tail(parts)) \o Sep \o parts[1]

\* "::".join(parts)
RECURSIVE Join(_)
Join(parts) ==
    IF parts = <<>> THEN <<>>
    ELSE IF Len(parts) = 1 THEN parts[1]
    ELSE parts[1] \o Sep \o Join(Tail(parts))

\* ----------------------------------------------------------- environment
\* what get_open_filename_input returns: None on cancel, or the chosen path
DialogResults == {NoneValue, "", "sym.dbg"}

\* bool(dbg_file)
Truthy_notNone(f) == f # NoneValue

Truthy(f) == f # NoneValue /\ f # ""

\* bv.start
Bases == {[hi |-> 64, lo |-> 0], [hi |-> 98304, lo |-> 61440]}

A_zero  == Rep("0", 8)
A_1000  == <<"0","0","0","0","1","0","0","0">>
A_abcd  == <<"0","0","4","0","a","b","c","d">>
A_max   == Rep("f", 8)
A_upper == <<"0","0","0","0","A","B","C","D">>
A_mixed == <<"0","0","0","f","F","0","0","0">>

N_empty   == <<>>
N_mangled == <<"?","f","@","@">>
N_plain   == <<"m","a","i","n">>
N_spaced  == <<"a",".","c"," ",":"," ","7">>

MkLine(t, a, n) == <<t, " ">> \o a \o <<" ">> \o n

WellFormedLines ==
    { MkLine("F", A_1000, N_mangled), MkLine("F", A_max, N_plain),
      MkLine("G", A_abcd, N_empty),   MkLine("S", A_zero, N_spaced) }

UpperCaseLines ==
    { MkLine("F", A_upper, N_plain), MkLine("S", A_mixed, N_spaced) }

MalformedLines ==
    { MkLine("X", A_1000, N_plain),               \* unknown tag
      <<"G", " ">> \o Rep("1", 7) \o <<" ", "g">>, \* seven digits
      <<"F", " ">> \o A_1000,                     \* no third field
      <<>> }                                      \* blank line

LinePool == WellFormedLines \cup UpperCaseLines \cup MalformedLines

RECURSIVE SeqsUpTo(_, _)
SeqsUpTo(S, n) ==
    IF n = 0 THEN {<<>>}
    ELSE LET shorter == SeqsUpTo(S, n - 1)
         IN  shorter \cup {Append(q, x) : q \in {r \in shorter : Len(r) = n - 1}, x \in S}

ToolOutputs == SeqsUpTo(LinePool, MaxLines)

\* what demangle_ms(bv.arch, name) can do: raise, give the name back with no
\* type, or give a type with a flat name or with a list of components
Raise == [kind |-> "raise", typ |-> NoneValue, flat |-> <<>>, parts |-> <<>>]

DemangleResults(n) ==
    { Raise,
      [kind |-> "str",  typ |-> NoneValue, flat |-> n, parts |-> <<>>],
      [kind |-> "str",  typ |-> "T_void",  flat |-> <<"g","_","x">>, parts |-> <<>>],
      [kind |-> "list", typ |-> "T_int",   flat |-> <<>>,
       parts |-> << <<"N","s">>, <<"C">>, <<"f">> >>] }

\* ----------------------------------------------------------- host calls
Call(op, k, a, kind, n, raw, text, ftype) ==
    [op |-> op, line |-> k, addr |-> a, kind |-> kind, name |-> n,
     raw |-> raw, text |-> text, ftype |-> ftype]

\* ------------------------------------------------------------------ Init
Init ==
    /\ pc = "prompt"
    /\ fault = "none"
    /\ dbg_file = NoneValue
    /\ toolRuns = <<>>
    /\ exit_status = 0
    /\ output = <<>>
    /\ idx = 0
    /\ typ = ""
    /\ addr_str = <<>>
    /\ name = <<>>
    /\ addr = Zero
    /\ mangle_typ = NoneValue
    /\ mangle_name = <<>>
    /\ demangleReqs = <<>>
    /\ hostCalls = <<>>
    /\ start \in Bases

\* position after the body of the loop has run for line idx
AfterLine == IF idx < Len(output) THEN "match" ELSE "done"
AfterLineIdx == IF idx < Len(output) THEN idx + 1 ELSE idx

\* ---------------------------------------------------------------- actions
\* get_open_filename_input and the test `if dbg_file:`
Prompt ==
    /\ pc = "prompt"
    /\ \E f \in DialogResults :
         /\ dbg_file' = f
         /\ pc' = IF Truthy(f) THEN "run" ELSE "done"
    /\ UNCHANGED <<fault, toolRuns, exit_status, output, idx, typ, addr_str,
                   name, addr, mangle_typ, mangle_name, demangleReqs,
                   hostCalls, start>>

\* subprocess.check_output(["dbgparse", dbg_file]) exits non-zero
ToolFails ==
    /\ pc = "run"
    /\ toolRuns' = Append(toolRuns, <<"dbgparse", dbg_file>>)
    /\ \E code \in {1, 2} : exit_status' = code
    /\ fault' = "CalledProcessError"
    /\ pc' = "aborted"
    /\ UNCHANGED <<dbg_file, output, idx, typ, addr_str, name, addr,
                   mangle_typ, mangle_name, demangleReqs, hostCalls, start>>

\* subprocess.check_output(...).decode().splitlines(), tool exits with 0
RunTool ==
    /\ pc = "run"
    /\ toolRuns' = Append(toolRuns, <<"dbgparse", dbg_file>>)
    /\ \E out \in ToolOutputs :
         /\ output' = out
         /\ idx' = IF out = <<>> THEN 0 ELSE 1
         /\ pc' = IF out = <<>> THEN "done" ELSE "match"
    /\ UNCHANGED <<fault, dbg_file, exit_status, typ, addr_str, name, addr,
                   mangle_typ, mangle_name, demangleReqs, hostCalls, start>>

MatchFails_skip ==
    /\ pc = "match"
    /\ ~RexMatch(output[idx]).ok
    /\ pc' = AfterLine
    /\ idx' = AfterLineIdx
    /\ UNCHANGED <<fault, dbg_file, toolRuns, exit_status, output, typ,
                   addr_str, name, addr, mangle_typ, mangle_name,
                   demangleReqs, hostCalls, start>>

\* rex.match(line) is None: .groups() raises AttributeError
MatchFails ==
    /\ pc = "match"
    /\ ~RexMatch(output[idx]).ok
    /\ fault' = "AttributeError"
    /\ pc' = "aborted"
    /\ UNCHANGED <<dbg_file, toolRuns, exit_status, output, idx, typ,
                   addr_str, name, addr, mangle_typ, mangle_name,
                   demangleReqs, hostCalls, start>>

\* (typ, addr, name) = rex.match(line).groups(); addr = bv.start + int(addr, 16)
Match ==
    /\ pc = "match"
    /\ LET m == RexMatch(output[idx])
       IN  /\ m.ok
           /\ typ' = m.typ
           /\ addr_str' = m.addr
           /\ name' = m.name
           /\ addr' = Add(start, HexInt(m.addr))
    /\ pc' = "demangle"
    /\ UNCHANGED <<fault, dbg_file, toolRuns, exit_status, output, idx,
                   mangle_typ, mangle_name, demangleReqs, hostCalls, start>>

\* mangle_name after `if type(mangle_name) == list: "::".join(mangle_name)`
Joined(r) == IF r.kind = "list" THEN Join(r.parts) ELSE r.flat

DemangleFails_swallowed ==
    /\ pc = "demangle"
    /\ Raise \in DemangleResults(name)
    /\ demangleReqs' = Append(demangleReqs, [line |-> idx, name |-> name, result |-> Raise])
    /\ pc' = AfterLine
    /\ idx' = AfterLineIdx
    /\ UNCHANGED <<fault, dbg_file, toolRuns, exit_status, output, typ,
                   addr_str, name, addr, mangle_typ, mangle_name,
                   hostCalls, start>>

\* demangle.demangle_ms(bv.arch, name) raises
DemangleFails ==
    /\ pc = "demangle"
    /\ Raise \in DemangleResults(name)
    /\ demangleReqs' = Append(demangleReqs, [line |-> idx, name |-> name, result |-> Raise])
    /\ fault' = "DemangleError"
    /\ pc' = "aborted"
    /\ UNCHANGED <<dbg_file, toolRuns, exit_status, output, idx, typ,
                   addr_str, name, addr, mangle_typ, mangle_name,
                   hostCalls, start>>

\* (mangle_typ, mangle_name) = demangle.demangle_ms(bv.arch, name), then the join
Demangle ==
    /\ pc = "demangle"
    /\ \E r \in DemangleResults(name) \ {Raise} :
         /\ demangleReqs' = Append(demangleReqs, [line |-> idx, name |-> name, result |-> r])
         /\ mangle_typ' = r.typ
         /\ mangle_name' = Joined(r)
    /\ pc' = "dispatch"
    /\ UNCHANGED <<fault, dbg_file, toolRuns, exit_status, output, idx, typ,
                   addr_str, name, addr, hostCalls, start>>

NoText == <<>>

FunctionSymbol_asData(a, n, raw) ==
    Call("define_user_symbol", idx, a, "DataSymbol", n, raw, NoText, NoneValue)

\* Symbol(SymbolType.FunctionSymbol, addr, mangle_name, raw_name=name)
FunctionSymbol(a, n, raw) ==
    Call("define_user_symbol", idx, a, "FunctionSymbol", n, raw, NoText, NoneValue)

DataSymbol_asFunction(a, n, raw) ==
    Call("define_user_symbol", idx, a, "FunctionSymbol", n, raw, NoText, NoneValue)

\* Symbol(SymbolType.DataSymbol, addr, mangle_name, raw_name=name)
DataSymbol(a, n, raw) ==
    Call("define_user_symbol", idx, a, "DataSymbol", n, raw, NoText, NoneValue)

CommentText_demangled == mangle_name

\* second argument of bv.set_comment_at(addr, name)
CommentText == name

HasType_always(t) == TRUE

\* mangle_typ != None
HasType(t) == t # NoneValue

\* typ == "F": bv.create_user_function(addr)
CreateFunction ==
    /\ pc = "dispatch"
    /\ typ = "F"
    /\ hostCalls' = Append(hostCalls,
         Call("create_user_function", idx, addr, "", <<>>, <<>>, NoText, NoneValue))
    /\ pc' = "F_define"
    /\ UNCHANGED <<fault, dbg_file, toolRuns, exit_status, output, idx, typ,
                   addr_str, name, addr, mangle_typ, mangle_name,
                   demangleReqs, start>>

\* bv.define_user_symbol(Symbol(FunctionSymbol, ...)) and `if mangle_typ != None`
DefineFunctionSymbol ==
    /\ pc = "F_define"
    /\ hostCalls' = Append(hostCalls, FunctionSymbol(addr, mangle_name, name))
    /\ IF HasType(mangle_typ)
       THEN pc' = "F_type" /\ idx' = idx
       ELSE pc' = AfterLine /\ idx' = AfterLineIdx
    /\ UNCHANGED <<fault, dbg_file, toolRuns, exit_status, output, typ,
                   addr_str, name, addr, mangle_typ, mangle_name,
                   demangleReqs, start>>

\* bv.get_function_at(addr).function_type = mangle_typ
SetFunctionType ==
    /\ pc = "F_type"
    /\ hostCalls' = hostCalls \o
         << Call("get_function_at", idx, addr, "", <<>>, <<>>, NoText, NoneValue),
            Call("set_function_type", idx, addr, "", <<>>, <<>>, NoText, mangle_typ) >>
    /\ pc' = AfterLine
    /\ idx' = AfterLineIdx
    /\ UNCHANGED <<fault, dbg_file, toolRuns, exit_status, output, typ,
                   addr_str, name, addr, mangle_typ, mangle_name,
                   demangleReqs, start>>

\* typ == "G": bv.define_user_symbol(Symbol(DataSymbol, ...))
DefineDataSymbol ==
    /\ pc = "dispatch"
    /\ typ = "G"
    /\ hostCalls' = Append(hostCalls, DataSymbol(addr, mangle_name, name))
    /\ pc' = AfterLine
    /\ idx' = AfterLineIdx
    /\ UNCHANGED <<fault, dbg_file, toolRuns, exit_status, output, typ,
                   addr_str, name, addr, mangle_typ, mangle_name,
                   demangleReqs, start>>

\* typ == "S": bv.set_comment_at(addr, name)
SetComment ==
    /\ pc = "dispatch"
    /\ typ = "S"
    /\ hostCalls' = Append(hostCalls,
         Call("set_comment_at", idx, addr, "", <<>>, <<>>, CommentText, NoneValue))
    /\ pc' = AfterLine
    /\ idx' = AfterLineIdx
    /\ UNCHANGED <<fault, dbg_file, toolRuns, exit_status, output, typ,
                   addr_str, name, addr, mangle_typ, mangle_name,
                   demangleReqs, start>>

Next ==
    \/ Prompt
    \/ ToolFails
    \/ RunTool
    \/ MatchFails
    \/ Match
    \/ DemangleFails
    \/ Demangle
    \/ CreateFunction
    \/ DefineFunctionSymbol
    \/ SetFunctionType
    \/ DefineDataSymbol
    \/ SetComment

Spec == Init /\ [][Next]_vars

TypeOK ==
    /\ pc \in {"prompt", "run", "match", "demangle", "dispatch", "F_define",
               "F_type", "done", "aborted"}
    /\ fault \in {"none", "CalledProcessError", "AttributeError", "DemangleError"}
    /\ idx \in 0..Len(output)
    /\ Len(output) <= MaxLines
    /\ Len(toolRuns) <= 1

\* ------------------------------------------------------ property helpers
Lines == 1..Len(output)
CallIdx == 1..Len(hostCalls)

CallsOf(k) == SelectSeq(hostCalls, LAMBDA c : c.line = k)
OpsOf(k) == [i \in 1..Len(CallsOf(k)) |-> CallsOf(k)[i].op]
CountOp(k, op) == Cardinality({i \in CallIdx : hostCalls[i].line = k /\ hostCalls[i].op = op})

\* the loop body has run to its end for line k
LineDone(k) == k < idx \/ (k = idx /\ pc = "done")
\* line k has been handed to the matcher
LineSeen(k) == k < idx \/ (k = idx /\ pc # "match")

TagOf(k) == IF Len(output[k]) >= 1 THEN output[k][1] ELSE ""
FieldOf(k) == SubSeq(output[k], 3, HexFieldLen + 2)
RestOf(k) == SubSeq(output[k], HexFieldLen + 4, Len(output[k]))
LineAddr(k) == Add(start, HexInt(FieldOf(k)))

\* answers the demangler gave for line k
ResultsOf(k) == {demangleReqs[i].result : i \in {j \in 1..Len(demangleReqs) : demangleReqs[j].line = k}}

Geq(a, b) == a.hi > b.hi \/ (a.hi = b.hi /\ a.lo >= b.lo)
Sub(a, b) ==
    IF a.lo >= b.lo THEN [hi |-> a.hi - b.hi, lo |-> a.lo - b.lo]
    ELSE [hi |-> a.hi - b.hi - 1, lo |-> a.lo + Radix - b.lo]

HexChars == <<"0","1","2","3","4","5","6","7","8","9","a","b","c","d","e","f">>
HexChar(v) == HexChars[v + 1]
ToHex4(n) == << HexChar((n \div 4096) % 16), HexChar((n \div 256) % 16),
                HexChar((n \div 16) % 16), HexChar(n % 16) >>
ToHex8(x) == ToHex4(x.hi) \o ToHex4(x.lo)

\* str.split("::")
RECURSIVE SplitAcc(_, _, _)
SplitAcc(s, cur, acc) ==
    IF s = <<>> THEN Append(acc, cur)
    ELSE IF Len(s) >= 2 /\ s[1] = ":" /\ s[2] = ":"
         THEN SplitAcc(SubSeq(s, 3, Len(s)), <<>>, Append(acc, cur))
         ELSE SplitAcc(Tail(s), Append(cur, s[1]), acc)
SplitScope(s) == SplitAcc(s, <<>>, <<>>)

\* ------------------------------------------------------------ properties

\* C1: every F line whose loop body has finished made exactly one
\* create_user_function call and exactly one define_user_symbol call with a
\* function-kind symbol, both at bv.start + offset, and no set_comment_at call.
C1_FunctionLine ==
    \A k \in Lines :
      (LineDone(k) /\ TagOf(k) = "F") =>
        /\ CountOp(k, "create_user_function") = 1
        /\ CountOp(k, "define_user_symbol") = 1
        /\ CountOp(k, "set_comment_at") = 0
        /\ \A i \in CallIdx :
             (hostCalls[i].line = k /\ hostCalls[i].op \in {"create_user_function", "define_user_symbol"}) =>
               /\ hostCalls[i].addr = LineAddr(k)
               /\ hostCalls[i].op = "define_user_symbol" => hostCalls[i].kind = "FunctionSymbol"

C1_Witness ==
    \E k \in Lines :
      /\ LineDone(k) /\ TagOf(k) = "F"
      /\ CountOp(k, "define_user_symbol") = 1
      /\ CountOp(k, "create_user_function") = 1

\* C2: every G line whose loop body has finished made exactly one host call:
\* define_user_symbol with a data-kind symbol at bv.start + offset; no function
\* creation, no function-type assignment, no comment.
C2_GlobalLine ==
    \A k \in Lines :
      (LineDone(k) /\ TagOf(k) = "G") =>
        /\ CountOp(k, "define_user_symbol") = 1
        /\ CountOp(k, "create_user_function") = 0
        /\ CountOp(k, "set_function_type") = 0
        /\ CountOp(k, "set_comment_at") = 0
        /\ \A i \in CallIdx :
             (hostCalls[i].line = k /\ hostCalls[i].op = "define_user_symbol") =>
               hostCalls[i].kind = "DataSymbol" /\ hostCalls[i].addr = LineAddr(k)

C2_Witness ==
    \E k \in Lines :
      /\ LineDone(k) /\ TagOf(k) = "G"
      /\ \E r \in ResultsOf(k) : r.typ # NoneValue
      /\ CountOp(k, "define_user_symbol") = 1

\* C3: every S line whose loop body has finished made exactly one
\* set_comment_at call, at bv.start + offset, whose text is the raw third
\* field of the line, and no function-creation or symbol-definition call.
C3_SourceLine ==
    \A k \in Lines :
      (LineDone(k) /\ TagOf(k) = "S") =>
        /\ CountOp(k, "set_comment_at") = 1
        /\ CountOp(k, "create_user_function") = 0
        /\ CountOp(k, "define_user_symbol") = 0
        /\ \A i \in CallIdx :
             (hostCalls[i].line = k /\ hostCalls[i].op = "set_comment_at") =>
               hostCalls[i].text = RestOf(k) /\ hostCalls[i].addr = LineAddr(k)

C3_Witness ==
    \E k \in Lines :
      /\ LineDone(k) /\ TagOf(k) = "S"
      /\ CountOp(k, "set_comment_at") = 1
      /\ \E r \in ResultsOf(k) : r.kind = "list" /\ Join(r.parts) # RestOf(k)

\* C4: once the dialog has returned None or the empty string, the command is
\* over with no tool run, no demangle request, no host call and no fault.
C4_CancelSkips ==
    (pc # "prompt" /\ dbg_file \in {NoneValue, ""}) =>
        /\ pc = "done"
        /\ toolRuns = <<>>
        /\ demangleReqs = <<>>
        /\ hostCalls = <<>>
        /\ fault = "none"
        /\ output = <<>>

C4_Witness == pc = "done" /\ dbg_file = "" /\ hostCalls = <<>>

\* sample fields and names the pattern claims are quantified over
TagChars == {"F", "G", "S"}
LowerFields == {A_zero, A_1000, A_abcd, A_max}
EitherCaseFields == LowerFields \cup {A_upper, A_mixed}
SampleNames == {N_empty, N_mangled, N_plain, N_spaced}

\* line k, built as <t> <a> <n>, went through the matcher without a fault and
\* gave exactly the triple (t, a, n), n being all that follows the second blank
Accepted(k, t, a, n) ==
    /\ LineSeen(k) => ~(idx = k /\ fault = "AttributeError")
    /\ (idx = k /\ pc # "match") =>
          /\ typ = t
          /\ addr_str = a
          /\ name = n
          /\ name = RestOf(k)

\* C5 as stated: a line <tag> <8 hex digits, either letter case> <name> is
\* accepted by the matcher and gives the triple (tag, address, name).
C5_AnyCaseAccepted ==
    \A k \in Lines : \A t \in TagChars, a \in EitherCaseFields, n \in SampleNames :
      output[k] = MkLine(t, a, n) => Accepted(k, t, a, n)

\* C5 amended: a line <tag> <8 digits from 0-9a-f> <name> is accepted by the
\* matcher and gives the triple (tag, address, name), the name being the whole
\* (possibly empty) remainder of the line.
C5_LowerCaseAccepted ==
    \A k \in Lines : \A t \in TagChars, a \in LowerFields, n \in SampleNames :
      output[k] = MkLine(t, a, n) => Accepted(k, t, a, n)

C5_Witness ==
    /\ pc = "demangle"
    /\ idx \in Lines
    /\ output[idx] = MkLine("S", A_zero, N_spaced)
    /\ name = N_spaced

\* C6: the address of every host call, and the address computed for the line
\* in hand, is bv.start plus the value of the line's 8-digit field: it is not
\* below bv.start and the difference, written as 8 hex digits, is the field.
OffsetIs(a, k) ==
    /\ Geq(a, start)
    /\ Sub(a, start).hi < Radix
    /\ ToHex8(Sub(a, start)) = FieldOf(k)

C6_AddressIsBasePlusOffset ==
    /\ \A i \in CallIdx : OffsetIs(hostCalls[i].addr, hostCalls[i].line)
    /\ (idx >= 1 /\ pc # "match" /\ fault # "AttributeError") => OffsetIs(addr, idx)

C6_Witness ==
    \E i \in CallIdx :
      /\ FieldOf(hostCalls[i].line) = A_max
      /\ hostCalls[i].addr.hi >= 2 * Radix
      /\ start.lo + (Radix - 1) >= Radix

\* C7: the name of every defined symbol is the demangler's components joined
\* in order with "::" (splitting it at "::" gives the components back), or the
\* flat name unchanged; the raw name is the line's third field.
C7_SymbolName ==
    \A i \in CallIdx :
      hostCalls[i].op = "define_user_symbol" =>
        /\ hostCalls[i].raw = RestOf(hostCalls[i].line)
        /\ \A r \in ResultsOf(hostCalls[i].line) :
             /\ r.kind = "list" => SplitScope(hostCalls[i].name) = r.parts
             /\ r.kind = "str" => hostCalls[i].name = r.flat

C7_Witness ==
    \E i \in CallIdx :
      /\ hostCalls[i].op = "define_user_symbol"
      /\ \E r \in ResultsOf(hostCalls[i].line) : r.kind = "list" /\ Len(r.parts) >= 2
      /\ hostCalls[i].raw = N_mangled

NoCallsFrom(k) == \A i \in CallIdx : hostCalls[i].line < k

\* C8: a non-zero tool exit leaves no host call and no demangle request; a
\* line the pattern rejects, once seen, and a demangler fault each leave the
\* command aborted on that line with no host call for it or any later line
\* and no request for a later line.
C8_FaultAborts ==
    /\ exit_status # 0 =>
         pc = "aborted" /\ hostCalls = <<>> /\ demangleReqs = <<>> /\ idx = 0
    /\ \A k \in Lines :
         (LineSeen(k) /\ ~RexMatch(output[k]).ok) =>
           /\ pc = "aborted" /\ idx = k /\ NoCallsFrom(k)
           /\ \A j \in 1..Len(demangleReqs) : demangleReqs[j].line < k
    /\ \A j \in 1..Len(demangleReqs) :
         demangleReqs[j].result = Raise =>
           /\ pc = "aborted" /\ idx = demangleReqs[j].line
           /\ NoCallsFrom(demangleReqs[j].line)
           /\ j = Len(demangleReqs)
    /\ pc = "aborted" => ~ENABLED Next

C8_Witness ==
    /\ pc = "aborted"
    /\ fault = "AttributeError"
    /\ idx >= 2
    /\ hostCalls # <<>>

\* the host operations a fully applied line makes, in order
FullOps(k) ==
    CASE TagOf(k) = "F" ->
           IF \E r \in ResultsOf(k) : r.typ # NoneValue
           THEN <<"create_user_function", "define_user_symbol",
                  "get_function_at", "set_function_type">>
           ELSE <<"create_user_function", "define_user_symbol">>
      [] TagOf(k) = "G" -> <<"define_user_symbol">>
      [] TagOf(k) = "S" -> <<"set_comment_at">>
      [] OTHER -> <<>>

\* C9: host calls are in the order of the lines; when the command has aborted
\* on line k (pattern or demangler fault), every line before k is fully
\* applied and no call belongs to line k or a later one.
C9_InOrderNoRollback ==
    /\ \A i, j \in CallIdx : i < j => hostCalls[i].line <= hostCalls[j].line
    /\ \A k \in Lines : LineDone(k) => (OpsOf(k) = FullOps(k) /\ OpsOf(k) # <<>>)
    /\ (pc = "aborted" /\ fault \in {"AttributeError", "DemangleError"}) =>
         /\ NoCallsFrom(idx)
         /\ \A k \in 1..(idx - 1) : OpsOf(k) = FullOps(k) /\ OpsOf(k) # <<>>

C9_Witness ==
    /\ pc = "aborted"
    /\ fault = "DemangleError"
    /\ idx = 3
    /\ OpsOf(1) # <<>> /\ OpsOf(2) # <<>>

\* C10: a finished F line has a function-type assignment exactly when the
\* demangler gave a type; the assignment is of that type, at the line's
\* address, after the creation and the symbol definition; with no type there
\* is no lookup and no assignment.  G and S lines never look up or assign.
C10_FunctionType ==
    \A k \in Lines : LineDone(k) =>
      \A r \in ResultsOf(k) :
        IF TagOf(k) = "F"
        THEN /\ (r.typ # NoneValue) <=> (CountOp(k, "set_function_type") = 1)
             /\ r.typ = NoneValue =>
                  /\ CountOp(k, "set_function_type") = 0
                  /\ CountOp(k, "get_function_at") = 0
                  /\ CountOp(k, "create_user_function") = 1
                  /\ CountOp(k, "define_user_symbol") = 1
             /\ \A i \in CallIdx :
                  (hostCalls[i].line = k /\ hostCalls[i].op = "set_function_type") =>
                    /\ hostCalls[i].ftype = r.typ
                    /\ \E c, d \in 1..(i - 1) :
                         /\ hostCalls[c].line = k /\ hostCalls[c].op = "create_user_function"
                         /\ hostCalls[d].line = k /\ hostCalls[d].op = "define_user_symbol"
                         /\ hostCalls[c].addr = hostCalls[i].addr
                         /\ hostCalls[d].addr = hostCalls[i].addr
        ELSE /\ CountOp(k, "set_function_type") = 0
             /\ CountOp(k, "get_function_at") = 0

C10_Witness ==
    \E k \in Lines :
      /\ LineDone(k) /\ TagOf(k) = "F"
      /\ CountOp(k, "set_function_type") = 1
      /\ \E j \in Lines : LineDone(j) /\ TagOf(j) = "F" /\ CountOp(j, "set_function_type") = 0
====
